---- MODULE Spec2Model ----
(***************************************************************************)
(* The hierarchical document service of n8n/haystack-service               *)
(* (haystack_service_simple.py): the Elasticsearch index as a map from     *)
(* document id to (_source, _seq_no), and the request handlers as          *)
(* processes whose steps are the handler's Elasticsearch calls, so that    *)
(* several service instances (or workers) interleave between a read and    *)
(* the write that follows it.  The globals es_client and embedding_model   *)
(* are set, or left None, by startup_event.                                *)
(***************************************************************************)
EXTENDS Integers, Sequences, FiniteSets, TLC

\* Python's None (an absent parent_id, an absent additional_metadata entry).
None == "None"

\* Document ids and workflow ids the callers use.
Ids == {"a", "b", "c"}
Workflows == {"w1", "w2"}

\* Handler invocations: each name is one HTTP request, made at most once.
IngestOrder == <<"i1", "i2">>
IngestCalls == {IngestOrder[k] : k \in 1..Len(IngestOrder)}
UpdateCalls == {"u1"}
ConcurrentUpdateCalls == {"u1", "u2"}
ContextCalls == {"q1"}
TreeCalls == {"t1"}
FinalCalls == {"f1"}
StageCalls == {"g1"}
SearchCalls == {"s1"}
HierarchyCalls == {"h1"}
BatchCalls == {"b1"}

\* Longest list of documents one /ingest request carries: under Spec
\* (concurrent requests), under SpecWorkflow (requests one after another),
\* under SpecTree (one writer, one reader) and under SpecSiblings.
MaxBatch == 2
MaxBatchWorkflow == 3
MaxBatchTree == 3
MaxBatchSiblings == 4
MaxBatchForest == 3
MaxBatchFinal == 3
MaxBatchFaults == 3
MaxBatchQueries == 2
MaxBatchHierarchy == 3
MaxBatchRelated == 3
MaxBatchStatus == 2
MaxBatchRace == 2
MaxBatchRevised == 2

\* Greatest max_depth a /get_complete_tree request asks for (at least 1).
MaxDepthRequested == 2

valid_statuses == {"ready", "processing", "completed", "failed", "final_complete"}
max_retries == 3

\* processing_status values a client sends: a valid one and "uploaded", the
\* value get_documents_by_stage looks for under ready_chunk, which is not in
\* valid_statuses.
StatusInputs == {"completed", "uploaded"}

\* The request bodies of /ingest: DocumentInput restricted to the fields the
\* hierarchy and workflow logic reads.
DocumentInputs ==
    [document_id : Ids, parent_id : Ids \cup {None},
     workflow_id : Workflows, is_final_summary : BOOLEAN, content : {"text"}]

\* The documents of one summarization tree: members of workflow w1 with any
\* parent pointer, none of them a final summary.
TreeInputs ==
    {d \in DocumentInputs : d.workflow_id = "w1" /\ ~d.is_final_summary}

\* The documents of a flat tree: the root a and its children b and c.
LinkInputs ==
    {d \in TreeInputs :
        \/ d.document_id = "a" /\ d.parent_id = None
        \/ d.document_id \in {"b", "c"} /\ d.parent_id = "a"}

\* Documents a and b as roots in every workflow, final summary or not, and b
\* as a child of a.
WorkflowInputs ==
    {d \in DocumentInputs :
        /\ d.document_id \in {"a", "b"}
        /\ \/ d.parent_id = None
           \/ d.parent_id = "a" /\ d \in TreeInputs /\ d.document_id = "b"}

\* The documents of a forest: a and b as roots or as each other's parent, b
\* also as its own parent, and c as a root or under a or b.
ForestInputs ==
    {d \in TreeInputs :
        \/ d.document_id = "a" /\ d.parent_id \in {None, "b"}
        \/ d.document_id = "b" /\ d.parent_id \in {None, "a", "b"}
        \/ d.document_id = "c" /\ d.parent_id \in {None, "a", "b"}}

\* A workflow with its final summary a and the children b and c of a, and b
\* as a second final summary.
FinalInputs ==
    {d \in DocumentInputs :
        /\ d.workflow_id = "w1"
        /\ \/ d.document_id = "a" /\ d.parent_id = None /\ d.is_final_summary
           \/ d.document_id \in {"b", "c"} /\ d.parent_id = "a"
                  /\ ~d.is_final_summary
           \/ d.document_id = "b" /\ d.parent_id = None /\ d.is_final_summary}

\* A parent with up to three children: the root a and b, c, d under it.
SiblingIds == Ids \cup {"d"}

SiblingInputs ==
    {[document_id |-> "a", parent_id |-> None, workflow_id |-> "w1",
      is_final_summary |-> FALSE, content |-> "text"]}
    \cup {[document_id |-> id, parent_id |-> "a", workflow_id |-> "w1",
           is_final_summary |-> FALSE, content |-> "text"] :
              id \in SiblingIds \ {"a"}}

\* Documents re-ingested with other fields: a as a root of either workflow
\* with either content, b as a root or under a.
RevisedInputs ==
    [document_id : {"a"}, parent_id : {None}, workflow_id : Workflows,
     is_final_summary : {FALSE}, content : {"text", "revised"}]
    \cup [document_id : {"b"}, parent_id : {None, "a"}, workflow_id : {"w1"},
          is_final_summary : {FALSE}, content : {"text"}]

\* StageRequest with the default limit: the four stages of stage_mapping and
\* one name that is not a stage; hierarchy_level 0 stands for all levels.
StageRequests ==
    [stage_type : {"ready_chunk", "ready_summarize", "ready_aggregate",
                   "completed", "ready_embed"},
     hierarchy_level : {0, 1}]

\* SearchRequest without filters: the three mode flags.
SearchRequests ==
    [use_hybrid : BOOLEAN, use_vector : BOOLEAN, use_bm25 : BOOLEAN]

\* StatusUpdateRequests for the parent a, without additional_metadata.
ParentStatusRequests ==
    [document_id : {"a"}, processing_status : {"processing", "completed"},
     additional_status : {None}]

\* HierarchyRequest: max_depth is 1 or the default 3.
HierarchyRequests ==
    [document_id : {"a", "b"}, include_parents : BOOLEAN,
     include_children : BOOLEAN, max_depth : {1, 3}]

\* The greatest number of ids /batch_hierarchy accepts, and the memory usage
\* (percent) above which it means to refuse a request.
max_batch_documents == 50
memory_limit_percent == 85

\* A list of ids one longer than /batch_hierarchy accepts.
TooManyIds == [i \in 1..(max_batch_documents + 1) |-> "a"]

\* BatchHierarchyRequest: no id, ids stored or not, and too many ids.
BatchHierarchyRequests ==
    [document_ids : {<<>>, <<"a">>, <<"b">>, <<"a", "b">>, <<"c", "a">>,
                     TooManyIds},
     include_parents : BOOLEAN, include_children : BOOLEAN,
     max_depth : {1, 3}]

\* psutil.virtual_memory().percent at the time of a request.
MemoryPercents == {50, 90}

\* StatusUpdateRequest; additional_status is additional_metadata's entry
\* under the key "processing_status" (None: no such entry).
StatusUpdateRequests ==
    [document_id : {"a", "b"}, processing_status : StatusInputs,
     additional_status : {None, "uploaded"}]

VARIABLES
    store,   \* the index: document id -> [source, seq_no]
    ing,     \* /ingest requests
    upd,     \* /update_status requests
    ctx,     \* /get_document_with_context requests
    embedding_model,   \* the global set by startup_event: "loaded" or None
    tree,    \* /get_complete_tree requests
    fin,     \* /get_final_summary requests
    stage,   \* /get_by_stage requests
    srch,    \* /search requests
    es_client,   \* the global set by startup_event: "connected" or None
    hier,    \* /hierarchy requests
    bat      \* /batch_hierarchy requests

vars == <<store, ing, upd, ctx, embedding_model, tree, fin, stage, srch,
          es_client, hier, bat>>

\* What /ingest, /update_status and /get_document_with_context leave alone.
readers == <<embedding_model, tree, fin, stage, srch, es_client, hier, bat>>

Range(s) == {s[i] : i \in 1..Len(s)}

EmptyMap == [x \in {} |-> x]

NoSource ==
    [workflow_id |-> None, is_final_summary |-> FALSE, parent_id |-> None,
     children_ids |-> <<>>, processing_status |-> None, content |-> None]

NoResult == [source |-> NoSource, seq_no |-> 0]

NoInput ==
    [document_id |-> None, parent_id |-> None, workflow_id |-> None,
     is_final_summary |-> FALSE, content |-> None]

NoRequest ==
    [document_id |-> None, processing_status |-> None, additional_status |-> None]

\* es_client.index(id, body) without a condition: creates or overwrites, and
\* the document gets a new sequence number.
EsIndex(s, id, body) ==
    [x \in DOMAIN s \cup {id} |->
        IF x = id
        THEN [source |-> body,
              seq_no |-> IF id \in DOMAIN s THEN s[id].seq_no + 1 ELSE 1]
        ELSE s[x]]

\* A write that ignores the sequence number read.
SeqNoIgnored(s, id, seq_no) == id \in DOMAIN s

\* The condition of es_client.index(..., if_seq_no, if_primary_term): the
\* write is applied only when the document still has the sequence number read.
SeqNoMatches(s, id, seq_no) == id \in DOMAIN s /\ s[id].seq_no = seq_no

\* The es_doc that ingest_documents builds for one DocumentInput.
es_doc(doc_input) ==
    [workflow_id |-> doc_input.workflow_id,
     is_final_summary |-> doc_input.is_final_summary,
     parent_id |-> doc_input.parent_id,
     children_ids |-> <<>>,
     processing_status |-> "ready",
     content |-> doc_input.content]

\* "Workflow already has a final summary": the check at the head of the loop.
DuplicateFinal(wv, doc_input) ==
    /\ doc_input.workflow_id \in DOMAIN wv
    /\ wv[doc_input.workflow_id].final_summary_exists
    /\ doc_input.is_final_summary

\* A loop head that records final_summary_exists only when it first meets the
\* workflow.
workflow_validation_first_only(wv, doc_input) ==
    LET w == doc_input.workflow_id
        seen == IF w \in DOMAIN wv
                THEN wv[w]
                ELSE [final_summary_exists |-> doc_input.is_final_summary,
                      document_count |-> 0]
        entry == [seen EXCEPT !.document_count = @ + 1]
    IN [x \in DOMAIN wv \cup {w} |-> IF x = w THEN entry ELSE wv[x]]

\* workflow_validation after the loop head has accepted doc_input.
workflow_validation_next(wv, doc_input) ==
    LET w == doc_input.workflow_id
        seen == IF w \in DOMAIN wv
                THEN wv[w]
                ELSE [final_summary_exists |-> doc_input.is_final_summary,
                      document_count |-> 0]
        entry == [final_summary_exists |->
                      seen.final_summary_exists \/ doc_input.is_final_summary,
                  document_count |-> seen.document_count + 1]
    IN [x \in DOMAIN wv \cup {w} |-> IF x = w THEN entry ELSE wv[x]]

\* An /ingest request. consumed counts the documents the loop has reached;
\* finals_seen and finals_written count, per workflow, the final summaries
\* the loop has reached and those it has indexed; written is the set of
\* workflows it has indexed a document of; linked is the set of
\* <<child, parent>> it indexed while the parent was in the index;
\* embed_failed is the document on which embedding_model.encode raised;
\* refused holds, until the loop goes on, the <<child, parent>> whose
\* backlink write met a version conflict.
NoFinals == [w \in Workflows |-> 0]

IdleIngest ==
    [pc |-> "idle", status_code |-> 0, consumed |-> 0,
     workflow_validation |-> EmptyMap, document_ids |-> <<>>,
     doc_input |-> NoInput, parent_result |-> NoResult,
     finals_seen |-> NoFinals, finals_written |-> NoFinals,
     written |-> {}, linked |-> {}, embed_failed |-> NoInput,
     refused |-> {}]

IdleUpdate ==
    [pc |-> "idle", status_code |-> 0, error |-> None, request |-> NoRequest,
     attempt |-> 0, doc_result |-> NoResult, previous_status |-> None]

\* sibling_position = None and total_siblings = None of the handler.
NotComputed == -1

\* A context request.  parent_id is hierarchy.parent_id of the document
\* fetched first; sibling_ids is the children_ids read from the parent;
\* siblings holds the <<document_id, position>> pairs of the response.
IdleContext ==
    [pc |-> "idle", status_code |-> 0, document_id |-> None,
     breadcrumb_path |-> <<>>, visited_ids |-> {}, current_id |-> None,
     store_changed |-> FALSE,
     include_siblings |-> FALSE, parent_id |-> None, sibling_ids |-> <<>>,
     siblings |-> <<>>, sibling_position |-> NotComputed,
     total_siblings |-> NotComputed]

\* A /get_complete_tree request.  hits is the search result, each hit with
\* its document_id, hierarchy.parent_id and hierarchy.children_ids; nodes
\* lists the TreeNodes built, in the order build_tree_node was entered, with
\* their depth and has_children.
IdleTree ==
    [pc |-> "idle", status_code |-> 0, workflow_id |-> None, max_depth |-> 0,
     hits |-> <<>>, nodes |-> <<>>,
     total_nodes |-> 0, nodes_returned |-> 0, max_depth_found |-> 0,
     truncated |-> FALSE]

\* A /get_final_summary request with the fields of its response:
\* final_summary.document_id, navigation_context and
\* tree_metadata.total_documents.
IdleFinal ==
    [pc |-> "idle", status_code |-> 0, workflow_id |-> None,
     document_id |-> None, is_root |-> FALSE, has_children |-> FALSE,
     children_ids |-> <<>>, total_documents |-> 0]

\* A /get_by_stage request; queried records that es_client.search was
\* called, documents are the ids of the documents returned.
IdleStage ==
    [pc |-> "idle", status_code |-> 0, stage_type |-> None,
     hierarchy_level |-> 0, queried |-> FALSE, documents |-> {}]

\* A /search request; results are the ids of the documents returned.
IdleSearch ==
    [pc |-> "idle", status_code |-> 0, use_hybrid |-> FALSE,
     use_vector |-> FALSE, use_bm25 |-> FALSE, search_type |-> None,
     results |-> {}]

\* A /hierarchy request.  main_doc is the copy of the document fetched
\* first; pending are the children still to fetch; parents and children are
\* the ids of the documents in context["parents"] and context["children"].
IdleHierarchy ==
    [pc |-> "idle", status_code |-> 0, document_id |-> None,
     include_parents |-> FALSE, include_children |-> FALSE, max_depth |-> 0,
     main_doc |-> NoSource, pending |-> <<>>,
     parents |-> <<>>, children |-> <<>>, total_related |-> 0]

\* A /batch_hierarchy request.  memory_percent is what psutil reported;
\* queries counts the calls of es_client.search; found_docs maps the ids
\* found to their sources, all_related_ids and related_docs are the ids
\* asked for and found by the second search; results maps each requested id
\* to found, the parent reported (None: no parent entry) and the children
\* reported.
IdleBatch ==
    [pc |-> "idle", status_code |-> 0, document_ids |-> <<>>,
     include_parents |-> FALSE, include_children |-> FALSE, max_depth |-> 0,
     memory_percent |-> 0, queries |-> 0,
     found_docs |-> EmptyMap, all_related_ids |-> {}, related_docs |-> {},
     results |-> EmptyMap,
     total_requested |-> 0, total_found |-> 0,
     related_documents_fetched |-> 0]

\* The request fields of the start state.
InitRequests ==
    /\ store = EmptyMap
    /\ ing = [c \in IngestCalls |-> IdleIngest]
    /\ upd = [u \in ConcurrentUpdateCalls |-> IdleUpdate]
    /\ ctx = [q \in ContextCalls |-> IdleContext]
    /\ tree = [t \in TreeCalls |-> IdleTree]
    /\ fin = [f \in FinalCalls |-> IdleFinal]
    /\ stage = [g \in StageCalls |-> IdleStage]
    /\ srch = [r \in SearchCalls |-> IdleSearch]
    /\ hier = [h \in HierarchyCalls |-> IdleHierarchy]
    /\ bat = [b \in BatchCalls |-> IdleBatch]

\* startup_event when loading the SentenceTransformer may fail: the error is
\* logged, the service starts, es_client is set and embedding_model stays
\* None.
InitStartup ==
    /\ InitRequests
    /\ es_client = "connected"
    /\ embedding_model \in {"loaded", None}

\* startup_event when Elasticsearch(...) raises: the error is logged, the
\* service starts, and es_client and embedding_model both stay None.
InitUnavailable ==
    /\ InitRequests
    /\ es_client = None
    /\ embedding_model = None

Init ==
    /\ InitRequests
    /\ es_client = "connected"
    /\ embedding_model = "loaded"

\* store_changed records, for a context request, that the index was written
\* after the request's first read.
CtxAfterWrite ==
    [q \in ContextCalls |->
        IF ctx[q].pc # "idle" THEN [ctx[q] EXCEPT !.store_changed = TRUE]
        ELSE ctx[q]]

----------------------------------------------------------------------------
\* POST /ingest.  limit bounds the length of the request's document list and
\* inputs is the set its documents are drawn from.  The handler never looks
\* ahead in the list, so the list is supplied one document per iteration.

\* The request arrives: HTTP 503 when es_client is not set, and when
\* embedding_model was not loaded.
IngestStart(c) ==
    /\ ing[c].pc = "idle"
    /\ ing' = IF es_client = None
              THEN [ing EXCEPT ![c].pc = "done", ![c].status_code = 503]
              ELSE IF embedding_model = None
              THEN [ing EXCEPT ![c].pc = "done", ![c].status_code = 503]
              ELSE [ing EXCEPT ![c].pc = "loop"]
    /\ UNCHANGED <<store, upd, ctx>>
    /\ UNCHANGED readers

\* The loop reaches a document that is a second final summary of its
\* workflow within this request: HTTP 400.
IngestReject(c, doc_input, limit) ==
    /\ ing[c].pc = "loop"
    /\ ing[c].consumed < limit
    /\ DuplicateFinal(ing[c].workflow_validation, doc_input)
    /\ ing' = [ing EXCEPT ![c].pc = "done", ![c].status_code = 400,
                          ![c].consumed = @ + 1,
                          ![c].doc_input = doc_input,
                          ![c].finals_seen[doc_input.workflow_id] = @ + 1,
                          ![c].linked = {}, ![c].refused = {}]
    /\ UNCHANGED <<store, upd, ctx>>
    /\ UNCHANGED readers

\* The loop accepts the next document and embedding_model.encode raises: the
\* except clause logs the error and raises HTTP 500; the document is not
\* indexed and the rest of the list is not looked at.
IngestEmbedFails(c, doc_input, limit) ==
    /\ ing[c].pc = "loop"
    /\ ing[c].consumed < limit
    /\ ~DuplicateFinal(ing[c].workflow_validation, doc_input)
    /\ ing' = [ing EXCEPT
          ![c].pc = "done", ![c].status_code = 500,
          ![c].consumed = @ + 1,
          ![c].doc_input = doc_input,
          ![c].workflow_validation = workflow_validation_next(@, doc_input),
          ![c].linked = {}, ![c].refused = {},
          ![c].embed_failed = doc_input]
    /\ UNCHANGED <<store, upd, ctx>>
    /\ UNCHANGED readers

\* The loop accepts the next document, embeds it and indexes it under its id.
IngestIndex(c, doc_input, limit) ==
    /\ ing[c].pc = "loop"
    /\ ing[c].consumed < limit
    /\ ~DuplicateFinal(ing[c].workflow_validation, doc_input)
    /\ store' = EsIndex(store, doc_input.document_id, es_doc(doc_input))
    /\ ing' = [ing EXCEPT
          ![c].pc = IF doc_input.parent_id = None THEN "loop" ELSE "get_parent",
          ![c].consumed = @ + 1,
          ![c].doc_input = IF doc_input.parent_id = None THEN NoInput ELSE doc_input,
          ![c].workflow_validation = workflow_validation_next(@, doc_input),
          ![c].document_ids = Append(@, doc_input.document_id),
          ![c].finals_seen[doc_input.workflow_id] =
              IF doc_input.is_final_summary THEN @ + 1 ELSE @,
          ![c].finals_written[doc_input.workflow_id] =
              IF doc_input.is_final_summary THEN @ + 1 ELSE @,
          ![c].written = @ \cup {doc_input.workflow_id},
          ![c].linked = IF doc_input.parent_id \in DOMAIN store
                        THEN @ \cup {<<doc_input.document_id, doc_input.parent_id>>}
                        ELSE @,
          ![c].refused = {}]
    /\ ctx' = CtxAfterWrite
    /\ UNCHANGED upd
    /\ UNCHANGED readers

\* parent_doc after the child's id has been appended to the children_ids read.
parent_doc_linked(parent_source, doc_id) ==
    [parent_source EXCEPT !.children_ids = Append(@, doc_id)]

\* es_client.get of the parent.  It fails when the parent is not in the index
\* (warning, backlink skipped); the parent may already list the child (nothing
\* to write); otherwise the copy read gets the child appended and is kept,
\* with the sequence number read, for the conditional write.
IngestGetParent(c) ==
    LET p == ing[c].doc_input.parent_id
        doc_id == ing[c].doc_input.document_id
    IN
    /\ ing[c].pc = "get_parent"
    /\ ing' =
         IF p \notin DOMAIN store
         THEN [ing EXCEPT ![c].pc = "loop", ![c].doc_input = NoInput]
         ELSE IF doc_id \in Range(store[p].source.children_ids)
         THEN [ing EXCEPT ![c].pc = "loop", ![c].doc_input = NoInput]
         ELSE [ing EXCEPT
                 ![c].pc = "put_parent",
                 ![c].parent_result =
                     [source |-> parent_doc_linked(store[p].source, doc_id),
                      seq_no |-> store[p].seq_no]]
    /\ UNCHANGED <<store, upd, ctx>>
    /\ UNCHANGED readers

\* A write of the parent that is applied whatever the parent's version.
ParentWriteUnconditional(c) == TRUE

\* The conditional write of the parent can be applied.
ParentWriteApplies(c) ==
    SeqNoMatches(store, ing[c].doc_input.parent_id, ing[c].parent_result.seq_no)

\* es_client.index of the parent under if_seq_no: applied, or refused with a
\* version conflict that is logged and not retried.
IngestPutParent(c) ==
    /\ ing[c].pc = "put_parent"
    /\ IF ParentWriteApplies(c)
       THEN /\ store' = EsIndex(store, ing[c].doc_input.parent_id,
                                ing[c].parent_result.source)
            /\ ctx' = CtxAfterWrite
       ELSE UNCHANGED <<store, ctx>>
    /\ ing' = [ing EXCEPT
          ![c].pc = "loop", ![c].doc_input = NoInput,
          ![c].parent_result = NoResult,
          ![c].refused =
              IF ParentWriteApplies(c) THEN {}
              ELSE {<<ing[c].doc_input.document_id,
                      ing[c].doc_input.parent_id>>}]
    /\ UNCHANGED upd
    /\ UNCHANGED readers

\* The list is exhausted: IngestResponse, HTTP 200.
IngestReturn(c) ==
    /\ ing[c].pc = "loop"
    /\ ing' = [ing EXCEPT ![c].pc = "done", ![c].status_code = 200,
                          ![c].linked = {}, ![c].refused = {}]
    /\ UNCHANGED <<store, upd, ctx>>
    /\ UNCHANGED readers

\* /ingest requests served one after another: c is next in line when every
\* request before it has been answered.
NextInLine(c) ==
    \A k \in 1..Len(IngestOrder) :
        IngestOrder[k] = c => \A j \in 1..(k - 1) : ing[IngestOrder[j]].pc = "done"

----------------------------------------------------------------------------
\* POST /update_status

\* The value the handler stores under metadata.processing_status: status_update
\* starts with request.processing_status and additional_metadata's entries are
\* then copied over it key by key.
status_update(request) ==
    IF request.additional_status # None
    THEN request.additional_status
    ELSE request.processing_status

\* A document written back with its status and without the children_ids
\* read.
doc_source_rebuilt(doc_source, request) ==
    [doc_source EXCEPT !.processing_status = status_update(request),
                       !.children_ids = <<>>]

\* doc_source after doc_source['metadata'].update(status_update): the copy
\* read with its metadata changed.
doc_source_updated(doc_source, request) ==
    [doc_source EXCEPT !.processing_status = status_update(request)]

\* The request arrives: HTTP 503 when es_client is not set; an unknown
\* processing_status is refused with HTTP 400.
UpdateStart(u, request) ==
    /\ upd[u].pc = "idle"
    /\ upd' = IF es_client = None
              THEN [upd EXCEPT ![u].pc = "done", ![u].status_code = 503,
                               ![u].request = request]
              ELSE IF request.processing_status \notin valid_statuses
              THEN [upd EXCEPT ![u].pc = "done", ![u].status_code = 400,
                               ![u].request = request]
              ELSE [upd EXCEPT ![u].pc = "get", ![u].request = request]
    /\ UNCHANGED <<store, ing, ctx>>
    /\ UNCHANGED readers

\* es_client.get inside the retry loop.  A missing document raises an error
\* that is no version conflict: it is re-raised and answered with HTTP 500.
UpdateGet(u) ==
    LET id == upd[u].request.document_id IN
    /\ upd[u].pc = "get"
    /\ upd' =
         IF id \notin DOMAIN store
         THEN [upd EXCEPT ![u].pc = "done", ![u].status_code = 500,
                          ![u].error = "not_found"]
         ELSE [upd EXCEPT
                 ![u].pc = "put",
                 ![u].previous_status = store[id].source.processing_status,
                 ![u].doc_result =
                     [source |-> doc_source_updated(store[id].source,
                                                    upd[u].request),
                      seq_no |-> store[id].seq_no]]
    /\ UNCHANGED <<store, ing, ctx>>
    /\ UNCHANGED readers

\* The status code after the conditional write was refused on the last
\* attempt: the error is re-raised inside the loop and the outer handler
\* answers HTTP 500; the HTTP 409 after the loop is never reached.
conflict_status_code == 500

\* es_client.index under if_seq_no.  Applied: HTTP 200.  Refused with a version
\* conflict: retried while attempt < max_retries - 1, otherwise re-raised.
UpdatePut(u) ==
    LET id == upd[u].request.document_id IN
    /\ upd[u].pc = "put"
    /\ IF SeqNoMatches(store, id, upd[u].doc_result.seq_no)
       THEN /\ store' = EsIndex(store, id, upd[u].doc_result.source)
            /\ ctx' = CtxAfterWrite
            /\ upd' = [upd EXCEPT ![u].pc = "done", ![u].status_code = 200,
                                  ![u].doc_result = NoResult]
       ELSE /\ UNCHANGED <<store, ctx>>
            /\ upd' = IF upd[u].attempt < max_retries - 1
                      THEN [upd EXCEPT ![u].pc = "get", ![u].attempt = @ + 1,
                                       ![u].doc_result = NoResult,
                                       ![u].previous_status = None]
                      ELSE [upd EXCEPT ![u].pc = "done",
                                       ![u].status_code = conflict_status_code,
                                       ![u].error = "version_conflict",
                                       ![u].doc_result = NoResult]
    /\ UNCHANGED ing
    /\ UNCHANGED readers

----------------------------------------------------------------------------
\* GET /get_document_with_context/{document_id}: the breadcrumb walk

\* A path left in the order walked.
NotReversed(s) == s

\* breadcrumb_path.reverse()
Reverse(s) == [i \in 1..Len(s) |-> s[Len(s) + 1 - i]]

\* A loop head without the visited_ids check.
LoopEndsAtRoot(current_id, visited_ids) == current_id = None

\* The head of the while loop: it ends on a null parent and on an id already
\* in visited_ids (cycle, logged).
LoopEnds(current_id, visited_ids) ==
    current_id = None \/ current_id \in visited_ids

\* After the loop: the sibling block runs when include_siblings is set and
\* the document has a parent_id, otherwise the response is built (HTTP 200).
after_walk(call) ==
    IF call.include_siblings /\ call.parent_id # None
    THEN [call EXCEPT !.pc = "siblings_parent"]
    ELSE [call EXCEPT !.pc = "done", !.status_code = 200]

\* One iteration of the loop on path_doc, the document of current_id: the
\* request after it, with the path reversed when the loop ends.
walk_step(call, current_id, path_doc) ==
    LET visited == call.visited_ids \cup {current_id}
        path == Append(call.breadcrumb_path, current_id)
        parent == path_doc.parent_id
    IN IF LoopEnds(parent, visited)
       THEN after_walk([call EXCEPT
                         !.visited_ids = visited, !.current_id = parent,
                         !.breadcrumb_path = Reverse(path)])
       ELSE [call EXCEPT !.pc = "walk", !.visited_ids = visited,
                         !.current_id = parent, !.breadcrumb_path = path]

\* HTTP 503 when es_client is not set.  es_client.get of the document
\* itself: HTTP 404 when it is missing, otherwise the first iteration of the
\* loop runs on the copy fetched.
ContextStart(q, document_id, include_siblings) ==
    /\ ctx[q].pc = "idle"
    /\ ctx' = [ctx EXCEPT ![q] =
         IF es_client = None
         THEN [@ EXCEPT !.pc = "done", !.status_code = 503,
                        !.document_id = document_id,
                        !.include_siblings = include_siblings]
         ELSE IF document_id \notin DOMAIN store
         THEN [@ EXCEPT !.pc = "done", !.status_code = 404,
                        !.document_id = document_id,
                        !.include_siblings = include_siblings]
         ELSE walk_step([@ EXCEPT
                           !.document_id = document_id,
                           !.include_siblings = include_siblings,
                           !.parent_id = store[document_id].source.parent_id],
                        document_id, store[document_id].source)]
    /\ UNCHANGED <<store, ing, upd>>
    /\ UNCHANGED readers

\* es_client.get of the next ancestor: a missing ancestor ends the loop
\* (warning), a fetched one is one more iteration.
ContextWalk(q) ==
    LET id == ctx[q].current_id IN
    /\ ctx[q].pc = "walk"
    /\ ctx' = [ctx EXCEPT ![q] =
         IF id \notin DOMAIN store
         THEN after_walk([@ EXCEPT !.visited_ids = @ \cup {id},
                                   !.breadcrumb_path = Reverse(@)])
         ELSE walk_step(@, id, store[id].source)]
    /\ UNCHANGED <<store, ing, upd>>
    /\ UNCHANGED readers

\* The sibling block, es_client.get of the parent: a failure is logged and
\* the response carries no sibling information; so does a parent with empty
\* children_ids; otherwise the children_ids read are kept for the search.
ContextGetParent(q) ==
    LET p == ctx[q].parent_id IN
    /\ ctx[q].pc = "siblings_parent"
    /\ ctx' = [ctx EXCEPT ![q] =
         IF p \notin DOMAIN store
         THEN [@ EXCEPT !.pc = "done", !.status_code = 200]
         ELSE IF store[p].source.children_ids = <<>>
         THEN [@ EXCEPT !.pc = "done", !.status_code = 200]
         ELSE [@ EXCEPT !.pc = "siblings_search",
                        !.sibling_ids = store[p].source.children_ids]]
    /\ UNCHANGED <<store, ing, upd>>
    /\ UNCHANGED readers

\* The positions idx of enumerate(sibling_ids) whose id is among the hits,
\* in increasing order (1-based here, 0-based in the response).
RECURSIVE hit_positions(_, _, _)
hit_positions(sibling_ids, sibling_docs, idx) ==
    IF idx > Len(sibling_ids) THEN <<>>
    ELSE IF sibling_ids[idx] \in sibling_docs
    THEN <<idx>> \o hit_positions(sibling_ids, sibling_docs, idx + 1)
    ELSE hit_positions(sibling_ids, sibling_docs, idx + 1)

\* A sibling list whose positions count from 1.
sibling_list_one_based(sibling_ids, sibling_docs, document_id) ==
    LET at == hit_positions(sibling_ids, sibling_docs, 1)
    IN [k \in 1..Len(at) |->
           [document_id |-> sibling_ids[at[k]], position |-> at[k]]]

\* The loop over enumerate(sibling_ids): one DocumentContextInfo per id that
\* the search returned, the queried document included, with position = idx.
sibling_list(sibling_ids, sibling_docs, document_id) ==
    LET at == hit_positions(sibling_ids, sibling_docs, 1)
    IN [k \in 1..Len(at) |->
           [document_id |-> sibling_ids[at[k]], position |-> at[k] - 1]]

\* sibling_position: idx of the queried document when it is among the hits.
position_of(sibling_ids, sibling_docs, document_id) ==
    LET at == {i \in 1..Len(sibling_ids) :
                 sibling_ids[i] = document_id /\ document_id \in sibling_docs}
    IN IF at = {} THEN NotComputed
       ELSE (CHOOSE i \in at : \A j \in at : j <= i) - 1

\* es_client.search for the documents whose document_id is in sibling_ids
\* (every write is made with refresh = True, so the search sees the index as
\* it stands), then the sibling list and the response, HTTP 200.
ContextSearchSiblings(q) ==
    LET sibling_docs == Range(ctx[q].sibling_ids) \cap DOMAIN store
        siblings == sibling_list(ctx[q].sibling_ids, sibling_docs,
                                 ctx[q].document_id)
    IN
    /\ ctx[q].pc = "siblings_search"
    /\ ctx' = [ctx EXCEPT
          ![q].pc = "done", ![q].status_code = 200,
          ![q].siblings = siblings,
          ![q].sibling_position =
              position_of(ctx[q].sibling_ids, sibling_docs, ctx[q].document_id),
          ![q].total_siblings = Len(siblings)]
    /\ UNCHANGED <<store, ing, upd>>
    /\ UNCHANGED readers

----------------------------------------------------------------------------
\* Elasticsearch queries.

\* The values an indexed es_doc holds under a field path.  es_doc nests the
\* workflow fields under "workflow" and repeats them under "metadata"; it has
\* no top-level is_final_summary.  The requests modelled leave document_type
\* and hierarchy_level at DocumentInput's defaults.
es_field(source, path) ==
    CASE path = "workflow.workflow_id" -> {source.workflow_id}
      [] path = "metadata.workflow_id" -> {source.workflow_id}
      [] path = "workflow.is_final_summary" -> {source.is_final_summary}
      [] path = "metadata.is_final_summary" -> {source.is_final_summary}
      [] path = "hierarchy.parent_id" -> {source.parent_id} \ {None}
      [] path = "metadata.processing_status" -> {source.processing_status}
      [] path = "document_type" -> {"source_document"}
      [] path = "hierarchy.level" -> {0}
      [] OTHER -> {}

\* {"term": {path: value}}: the documents holding value under path; a path
\* no document has matches nothing.
term(s, path, value) ==
    {id \in DOMAIN s : es_field(s[id].source, path) # {}
                        /\ value \in es_field(s[id].source, path)}

\* The orders in which a search without a sort may return the ids matched.
Orderings(S) ==
    {h \in [1..Cardinality(S) -> S] : \A x \in S : \E i \in DOMAIN h : h[i] = x}

----------------------------------------------------------------------------
\* GET /get_complete_tree/{workflow_id}

\* HTTP 404 for a workflow with no root document.
tree_status_code_needs_root(hits) ==
    IF \A i \in 1..Len(hits) : hits[i].parent_id # None THEN 404 ELSE 200

\* HTTP 404 when the search returns no document of the workflow.
tree_status_code(hits) == IF hits = <<>> THEN 404 ELSE 200

\* root_nodes: the hits whose parent_id is None, in the order of the hits.
root_nodes(hits) ==
    LET roots == SelectSeq(hits, LAMBDA h : h.parent_id = None)
    IN [i \in 1..Len(roots) |-> roots[i].document_id]

\* A doc_map whose children are the hit's stored hierarchy.children_ids.
doc_map_from_children_ids(hits) ==
    LET ids == {hits[i].document_id : i \in 1..Len(hits)} IN
    [id \in ids |->
        LET hit == hits[CHOOSE i \in 1..Len(hits) : hits[i].document_id = id]
        IN [children |-> SelectSeq(hit.children_ids, LAMBDA x : x \in ids)]]

\* doc_map: for every hit its children, the hits that name it as parent_id,
\* in the order of the hits.
doc_map(hits) ==
    [id \in {hits[i].document_id : i \in 1..Len(hits)} |->
        LET kids == SelectSeq(hits, LAMBDA h : h.parent_id = id)
        IN [children |-> [i \in 1..Len(kids) |-> kids[i].document_id]]]

\* if current_depth > max_depth: return None
too_deep(current_depth, max_depth) == current_depth > max_depth

\* Children built only down to one level above max_depth.
expands_one_less(current_depth, max_depth) == current_depth + 1 < max_depth

\* if current_depth < max_depth: build the child nodes
expands(current_depth, max_depth) == current_depth < max_depth

\* The ids of the nodes built.
built_ids(nodes) == {nodes[i].document_id : i \in 1..Len(nodes)}

\* build_tree_node: the nodes it builds, itself first, <<>> when it returns
\* None; processed is the set of documents whose processed flag is set.
\* build_nodes is the loop that calls it on each id of a list in turn.
RECURSIVE build_tree_node(_, _, _, _, _)
RECURSIVE build_nodes(_, _, _, _, _)
build_tree_node(map, doc_id, current_depth, max_depth, processed) ==
    IF doc_id \notin DOMAIN map THEN <<>>
    ELSE IF too_deep(current_depth, max_depth) THEN <<>>
    ELSE IF doc_id \in processed THEN <<>>
    ELSE <<[document_id |-> doc_id, depth |-> current_depth,
            has_children |-> map[doc_id].children # <<>>]>>
         \o (IF expands(current_depth, max_depth)
             THEN build_nodes(map, map[doc_id].children, current_depth + 1,
                              max_depth, processed \cup {doc_id})
             ELSE <<>>)

build_nodes(map, doc_ids, current_depth, max_depth, processed) ==
    IF doc_ids = <<>> THEN <<>>
    ELSE LET first == build_tree_node(map, Head(doc_ids), current_depth,
                                      max_depth, processed)
         IN first \o build_nodes(map, Tail(doc_ids), current_depth, max_depth,
                                 processed \cup built_ids(first))

\* calculate_tree_stats: the greatest depth among the nodes returned.
max_actual_depth(nodes) ==
    IF nodes = <<>> THEN 0
    ELSE CHOOSE d \in {nodes[i].depth : i \in 1..Len(nodes)} :
            \A i \in 1..Len(nodes) : nodes[i].depth <= d

\* The whole handler: HTTP 503 when es_client is not set; one search for the
\* documents of the workflow, which returns them in some order, then the
\* forest is built in memory from the hits.
CompleteTree(t, workflow_id, max_depth) ==
    \E order \in Orderings(term(store, "workflow.workflow_id", workflow_id)) :
    LET hits == [i \in 1..Len(order) |->
                    [document_id |-> order[i],
                     parent_id |-> store[order[i]].source.parent_id,
                     children_ids |-> store[order[i]].source.children_ids]]
        nodes == build_nodes(doc_map(hits), root_nodes(hits), 0, max_depth, {})
    IN
    /\ tree[t].pc = "idle"
    /\ tree' = [tree EXCEPT ![t] =
          IF es_client = None
          THEN [@ EXCEPT !.pc = "done", !.status_code = 503,
                         !.workflow_id = workflow_id, !.max_depth = max_depth]
          ELSE IF tree_status_code(hits) = 404
          THEN [@ EXCEPT !.pc = "done", !.status_code = 404,
                         !.workflow_id = workflow_id, !.max_depth = max_depth,
                         !.hits = hits]
          ELSE [@ EXCEPT !.pc = "done", !.status_code = tree_status_code(hits),
                         !.workflow_id = workflow_id, !.max_depth = max_depth,
                         !.hits = hits, !.nodes = nodes,
                         !.total_nodes = Len(hits),
                         !.nodes_returned = Len(nodes),
                         !.max_depth_found = max_actual_depth(nodes),
                         !.truncated = max_actual_depth(nodes) > max_depth]]
    /\ UNCHANGED <<store, ing, upd, ctx, embedding_model, fin, stage, srch,
                   es_client, hier, bat>>

----------------------------------------------------------------------------
\* GET /get_final_summary/{workflow_id}

\* The first size entries of the hits.
first_hits(order, size) ==
    SubSeq(order, 1, IF Len(order) < size THEN Len(order) ELSE size)

\* final_summary_query: both terms must match; the second one names the
\* field is_final_summary at the top level of the document.
final_summary_query(s, workflow_id) ==
    term(s, "workflow.workflow_id", workflow_id)
        \cap term(s, "is_final_summary", TRUE)

\* The status code when es_client is not set: the handler has no check of
\* es_client, es_client.search on None raises inside the try block and the
\* except clause answers HTTP 500.
final_summary_unavailable_status_code == 500

\* The whole handler.  The search (size 2) decides: no hit is HTTP 404, two
\* hits are HTTP 409; with one hit a second search counts the documents of
\* the workflow and the response is built from the hit, HTTP 200.
FinalSummary(f, workflow_id) ==
    \E order \in Orderings(final_summary_query(store, workflow_id)) :
    LET hits == first_hits(order, 2) IN
    /\ fin[f].pc = "idle"
    /\ fin' = [fin EXCEPT ![f] =
          IF es_client = None
          THEN [@ EXCEPT !.pc = "done",
                         !.status_code = final_summary_unavailable_status_code,
                         !.workflow_id = workflow_id]
          ELSE IF hits = <<>>
          THEN [@ EXCEPT !.pc = "done", !.status_code = 404,
                         !.workflow_id = workflow_id]
          ELSE IF Len(hits) > 1
          THEN [@ EXCEPT !.pc = "done", !.status_code = 409,
                         !.workflow_id = workflow_id]
          ELSE LET final_doc == store[hits[1]].source IN
               [@ EXCEPT !.pc = "done", !.status_code = 200,
                         !.workflow_id = workflow_id,
                         !.document_id = hits[1],
                         !.is_root = (final_doc.parent_id = None),
                         !.has_children = (final_doc.children_ids # <<>>),
                         !.children_ids = final_doc.children_ids,
                         !.total_documents =
                             Cardinality(term(store, "workflow.workflow_id",
                                              workflow_id))]]
    /\ UNCHANGED <<store, ing, upd, ctx, embedding_model, tree, stage, srch,
                   es_client, hier, bat>>

----------------------------------------------------------------------------
\* POST /get_by_stage

\* stage_mapping: the document_type (None: no filter) and processing_status
\* a stage looks for.
stage_mapping ==
    [ready_chunk |-> [document_type |-> "source_document",
                      processing_status |-> "uploaded"],
     ready_summarize |-> [document_type |-> "chunk",
                          processing_status |-> "ready"],
     ready_aggregate |-> [document_type |-> "chunk_summary",
                          processing_status |-> "completed"],
     completed |-> [document_type |-> None,
                    processing_status |-> "final_complete"]]

\* The must conditions of the query: document_type when the stage names one,
\* metadata.processing_status, and hierarchy.level when it is above 0.
stage_hits(s, stage_criteria, hierarchy_level) ==
    (IF stage_criteria.document_type # None
     THEN term(s, "document_type", stage_criteria.document_type)
     ELSE DOMAIN s)
    \cap term(s, "metadata.processing_status", stage_criteria.processing_status)
    \cap (IF hierarchy_level > 0
          THEN term(s, "hierarchy.level", hierarchy_level)
          ELSE DOMAIN s)

\* The status code of a request whose stage_type is not in stage_mapping:
\* the HTTPException(400) is raised inside the try block, whose only except
\* clause catches Exception and raises HTTP 500.
invalid_stage_status_code == 500

\* The whole handler: HTTP 503 when es_client is not set.
GetByStage(g, request) ==
    /\ stage[g].pc = "idle"
    /\ stage' = [stage EXCEPT ![g] =
          IF es_client = None
          THEN [@ EXCEPT !.pc = "done", !.status_code = 503,
                         !.stage_type = request.stage_type,
                         !.hierarchy_level = request.hierarchy_level]
          ELSE IF request.stage_type \notin DOMAIN stage_mapping
          THEN [@ EXCEPT !.pc = "done",
                         !.status_code = invalid_stage_status_code,
                         !.stage_type = request.stage_type,
                         !.hierarchy_level = request.hierarchy_level]
          ELSE [@ EXCEPT !.pc = "done", !.status_code = 200,
                         !.stage_type = request.stage_type,
                         !.hierarchy_level = request.hierarchy_level,
                         !.queried = TRUE,
                         !.documents =
                             stage_hits(store, stage_mapping[request.stage_type],
                                        request.hierarchy_level)]]
    /\ UNCHANGED <<store, ing, upd, ctx, embedding_model, tree, fin, srch,
                   es_client, hier, bat>>

----------------------------------------------------------------------------
\* POST /search

\* The branch the handler takes: bm25, vector, or hybrid for everything else.
search_type(request) ==
    IF request.use_bm25 /\ ~request.use_vector THEN "bm25"
    ELSE IF request.use_vector /\ ~request.use_bm25 THEN "vector"
    ELSE "hybrid"

\* if not embedding_model and (request.use_vector or request.use_hybrid)
embedding_required(request) == request.use_vector \/ request.use_hybrid

\* The whole handler: HTTP 503 when es_client is not set.  Without
\* embedding_model a request that passes the
\* check and takes the vector or hybrid branch calls encode on None, which
\* raises and is answered with HTTP 500.  bm25 returns the documents whose
\* content matches the query, any subset of the index; the other two
\* branches score every document.
Search(r, request) ==
    \E matching \in SUBSET DOMAIN store :
    /\ srch[r].pc = "idle"
    /\ search_type(request) # "bm25" => matching = DOMAIN store
    /\ srch' = [srch EXCEPT ![r] =
          LET call == [@ EXCEPT !.pc = "done",
                                !.use_hybrid = request.use_hybrid,
                                !.use_vector = request.use_vector,
                                !.use_bm25 = request.use_bm25]
          IN IF es_client = None
             THEN [call EXCEPT !.status_code = 503]
             ELSE IF embedding_model = None /\ embedding_required(request)
             THEN [call EXCEPT !.status_code = 503]
             ELSE IF embedding_model = None /\ search_type(request) # "bm25"
             THEN [call EXCEPT !.status_code = 500]
             ELSE [call EXCEPT !.status_code = 200,
                               !.search_type = search_type(request),
                               !.results = matching]]
    /\ UNCHANGED <<store, ing, upd, ctx, embedding_model, tree, fin, stage,
                   es_client, hier, bat>>

----------------------------------------------------------------------------
\* POST /hierarchy

\* Python's s[:n].
slice_to(s, n) == SubSeq(s, 1, IF Len(s) < n THEN Len(s) ELSE n)

\* HierarchyResponse, HTTP 200: total_related counts parents and children
\* (siblings stay empty).
hierarchy_response(call) ==
    [call EXCEPT !.pc = "done", !.status_code = 200,
                 !.total_related = Len(call.parents) + Len(call.children)]

\* The children block: it runs when include_children is set and the main
\* document has children_ids, on the first max_depth of them.
hierarchy_children(call) ==
    IF call.include_children /\ call.main_doc.children_ids # <<>>
    THEN [call EXCEPT !.pc = "child",
                      !.pending = slice_to(call.main_doc.children_ids,
                                           call.max_depth)]
    ELSE hierarchy_response(call)

\* HTTP 503 when es_client is not set.  es_client.get of the main document:
\* HTTP 404 when it fails; then the parent block runs when include_parents
\* is set and the document has a parent_id.
HierarchyStart(h, request) ==
    /\ hier[h].pc = "idle"
    /\ hier' = [hier EXCEPT ![h] =
          LET call == [@ EXCEPT !.document_id = request.document_id,
                                !.include_parents = request.include_parents,
                                !.include_children = request.include_children,
                                !.max_depth = request.max_depth]
          IN IF es_client = None
             THEN [call EXCEPT !.pc = "done", !.status_code = 503]
             ELSE IF request.document_id \notin DOMAIN store
             THEN [call EXCEPT !.pc = "done", !.status_code = 404]
             ELSE LET main_doc == store[request.document_id].source
                      fetched == [call EXCEPT !.main_doc = main_doc]
                  IN IF request.include_parents /\ main_doc.parent_id # None
                     THEN [fetched EXCEPT !.pc = "parent"]
                     ELSE hierarchy_children(fetched)]
    /\ UNCHANGED <<store, ing, upd, ctx, embedding_model, tree, fin, stage,
                   srch, es_client, bat>>

\* es_client.get of the parent: a missing parent is logged.
HierarchyParent(h) ==
    LET p == hier[h].main_doc.parent_id IN
    /\ hier[h].pc = "parent"
    /\ hier' = [hier EXCEPT ![h] =
          hierarchy_children(IF p \in DOMAIN store
                             THEN [@ EXCEPT !.parents = Append(@, p)]
                             ELSE @)]
    /\ UNCHANGED <<store, ing, upd, ctx, embedding_model, tree, fin, stage,
                   srch, es_client, bat>>

\* es_client.get of the next child: a missing child is logged.
HierarchyChild(h) ==
    LET child_id == Head(hier[h].pending) IN
    /\ hier[h].pc = "child"
    /\ hier' = [hier EXCEPT ![h] =
          LET fetched == [@ EXCEPT
                            !.pending = Tail(@),
                            !.children = IF child_id \in DOMAIN store
                                         THEN Append(@, child_id) ELSE @]
          IN IF fetched.pending = <<>> THEN hierarchy_response(fetched)
             ELSE fetched]
    /\ UNCHANGED <<store, ing, upd, ctx, embedding_model, tree, fin, stage,
                   srch, es_client, bat>>

----------------------------------------------------------------------------
\* POST /batch_hierarchy

\* The memory check ends the request when its HTTPException(503) leaves the
\* try block.  It is raised for memory_info.percent > 85 inside the try block,
\* whose except clause catches Exception (HTTPException is one), logs a
\* warning and lets the handler continue.
memory_check_rejects(memory_percent) ==
    LET raised == memory_percent > memory_limit_percent
        caught == raised
    IN raised /\ ~caught

\* The results of the response and its counters, from found_docs and
\* related_docs.  A parent that was not fetched is reported as "error".
batch_response(call, found_docs, related_docs) ==
    LET kids(id) == slice_to(found_docs[id].children_ids, call.max_depth)
        results ==
          [id \in Range(call.document_ids) |->
             IF id \notin DOMAIN found_docs
             THEN [found |-> FALSE, parent |-> None, children |-> <<>>]
             ELSE [found |-> TRUE,
                   parent |->
                     IF call.include_parents /\ found_docs[id].parent_id # None
                     THEN IF found_docs[id].parent_id \in related_docs
                          THEN found_docs[id].parent_id ELSE "error"
                     ELSE None,
                   children |->
                     IF call.include_children
                     THEN SelectSeq(kids(id), LAMBDA x : x \in related_docs)
                     ELSE <<>>]]
    IN [call EXCEPT
          !.pc = "done", !.status_code = 200,
          !.found_docs = found_docs, !.related_docs = related_docs,
          !.results = results,
          !.total_requested = Len(call.document_ids),
          !.total_found = Cardinality({id \in DOMAIN results : results[id].found}),
          !.related_documents_fetched = Cardinality(related_docs)]

\* The request arrives: HTTP 503 when es_client is not set, HTTP 400 for an
\* empty list and for more than 50 ids; then the memory check.
BatchStart(b, request, memory_percent) ==
    /\ bat[b].pc = "idle"
    /\ bat' = [bat EXCEPT ![b] =
          LET call == [@ EXCEPT !.document_ids = request.document_ids,
                                !.include_parents = request.include_parents,
                                !.include_children = request.include_children,
                                !.max_depth = request.max_depth,
                                !.memory_percent = memory_percent]
          IN IF es_client = None
             THEN [call EXCEPT !.pc = "done", !.status_code = 503]
             ELSE IF Len(request.document_ids) = 0
             THEN [call EXCEPT !.pc = "done", !.status_code = 400]
             ELSE IF Len(request.document_ids) > max_batch_documents
             THEN [call EXCEPT !.pc = "done", !.status_code = 400]
             ELSE IF memory_check_rejects(memory_percent)
             THEN [call EXCEPT !.pc = "done", !.status_code = 503]
             ELSE [call EXCEPT !.pc = "search"]]
    /\ UNCHANGED <<store, ing, upd, ctx, embedding_model, tree, fin, stage,
                   srch, es_client, hier>>

\* The first search, a terms query on document_id for the ids requested;
\* the parent ids and the first max_depth children ids of the documents
\* found are collected, and without any the response is built.
BatchSearch(b) ==
    LET call == bat[b]
        found == Range(call.document_ids) \cap DOMAIN store
        found_docs == [id \in found |-> store[id].source]
        parent_ids_to_fetch ==
          IF call.include_parents
          THEN {found_docs[id].parent_id : id \in found} \ {None}
          ELSE {}
        children_ids_to_fetch ==
          IF call.include_children
          THEN UNION {Range(slice_to(found_docs[id].children_ids,
                                     call.max_depth)) : id \in found}
          ELSE {}
        all_related_ids == parent_ids_to_fetch \cup children_ids_to_fetch
        searched == [call EXCEPT !.queries = @ + 1]
    IN
    /\ call.pc = "search"
    /\ bat' = [bat EXCEPT ![b] =
          IF all_related_ids = {}
          THEN batch_response(searched, found_docs, {})
          ELSE [searched EXCEPT !.pc = "related",
                                !.found_docs = found_docs,
                                !.all_related_ids = all_related_ids]]
    /\ UNCHANGED <<store, ing, upd, ctx, embedding_model, tree, fin, stage,
                   srch, es_client, hier>>

\* The second search, a terms query on document_id for the related ids;
\* then the response is built.
BatchRelated(b) ==
    LET call == bat[b] IN
    /\ call.pc = "related"
    /\ bat' = [bat EXCEPT ![b] =
          batch_response([call EXCEPT !.queries = @ + 1], call.found_docs,
                         call.all_related_ids \cap DOMAIN store)]
    /\ UNCHANGED <<store, ing, upd, ctx, embedding_model, tree, fin, stage,
                   srch, es_client, hier>>

----------------------------------------------------------------------------
\* The specifications.

\* Concurrent requests: the /ingest requests of one workflow's tree and a
\* /update_status request, interleaved at every Elasticsearch call.
Next ==
    \/ \E c \in IngestCalls : IngestStart(c)
    \/ \E c \in IngestCalls, d \in LinkInputs : IngestIndex(c, d, MaxBatch)
    \/ \E c \in IngestCalls : IngestGetParent(c)
    \/ \E c \in IngestCalls : IngestPutParent(c)
    \/ \E c \in IngestCalls : IngestReturn(c)
    \/ \E u \in UpdateCalls, r \in StatusUpdateRequests : UpdateStart(u, r)
    \/ \E u \in UpdateCalls : UpdateGet(u)
    \/ \E u \in UpdateCalls : UpdatePut(u)

Spec == Init /\ [][Next]_vars

\* /ingest requests of several workflows, served one after another.
NextWorkflow ==
    \/ \E c \in IngestCalls : NextInLine(c) /\ IngestStart(c)
    \/ \E c \in IngestCalls, d \in WorkflowInputs :
           IngestReject(c, d, MaxBatchWorkflow)
    \/ \E c \in IngestCalls, d \in WorkflowInputs :
           IngestIndex(c, d, MaxBatchWorkflow)
    \/ \E c \in IngestCalls : IngestGetParent(c)
    \/ \E c \in IngestCalls : IngestPutParent(c)
    \/ \E c \in IngestCalls : IngestReturn(c)

SpecWorkflow == Init /\ [][NextWorkflow]_vars

\* One /ingest request building a tree while a context request walks it.
NextTree ==
    \/ IngestStart("i1")
    \/ \E d \in TreeInputs : IngestIndex("i1", d, MaxBatchTree)
    \/ IngestGetParent("i1")
    \/ IngestPutParent("i1")
    \/ IngestReturn("i1")
    \/ \E q \in ContextCalls, id \in Ids : ContextStart(q, id, FALSE)
    \/ \E q \in ContextCalls : ContextWalk(q)

SpecTree == Init /\ [][NextTree]_vars

\* One /ingest request linking children to a parent while a context request
\* with include_siblings = true is answered.
NextSiblings ==
    \/ IngestStart("i1")
    \/ \E d \in SiblingInputs : IngestIndex("i1", d, MaxBatchSiblings)
    \/ IngestGetParent("i1")
    \/ IngestPutParent("i1")
    \/ IngestReturn("i1")
    \/ \E q \in ContextCalls, id \in SiblingIds : ContextStart(q, id, TRUE)
    \/ \E q \in ContextCalls : ContextWalk(q)
    \/ \E q \in ContextCalls : ContextGetParent(q)
    \/ \E q \in ContextCalls : ContextSearchSiblings(q)

SpecSiblings == Init /\ [][NextSiblings]_vars

\* One /ingest request writing the documents of a workflow, with any parent
\* pointers, and a /get_complete_tree request.
NextForest ==
    \/ IngestStart("i1")
    \/ \E d \in ForestInputs : IngestIndex("i1", d, MaxBatchForest)
    \/ IngestGetParent("i1")
    \/ IngestPutParent("i1")
    \/ IngestReturn("i1")
    \/ \E t \in TreeCalls, w \in Workflows, d \in 1..MaxDepthRequested :
           CompleteTree(t, w, d)

SpecForest == Init /\ [][NextForest]_vars

\* /ingest requests of a workflow with its final summary, served one after
\* another, and a /get_final_summary request.
NextFinal ==
    \/ \E c \in IngestCalls : NextInLine(c) /\ IngestStart(c)
    \/ \E c \in IngestCalls, d \in FinalInputs : IngestReject(c, d, MaxBatchFinal)
    \/ \E c \in IngestCalls, d \in FinalInputs : IngestIndex(c, d, MaxBatchFinal)
    \/ \E c \in IngestCalls : IngestGetParent(c)
    \/ \E c \in IngestCalls : IngestPutParent(c)
    \/ \E c \in IngestCalls : IngestReturn(c)
    \/ \E f \in FinalCalls, w \in Workflows : FinalSummary(f, w)

SpecFinal == Init /\ [][NextFinal]_vars

\* One /ingest request during which embedding_model.encode may raise.
NextFaults ==
    \/ IngestStart("i1")
    \/ \E d \in TreeInputs : IngestEmbedFails("i1", d, MaxBatchFaults)
    \/ \E d \in TreeInputs : IngestIndex("i1", d, MaxBatchFaults)
    \/ IngestGetParent("i1")
    \/ IngestPutParent("i1")
    \/ IngestReturn("i1")

SpecFaults == Init /\ [][NextFaults]_vars

\* A service that may have started without its embedding model: one /ingest
\* request, one /get_by_stage request and one /search request.
NextQueries ==
    \/ IngestStart("i1")
    \/ \E d \in LinkInputs : IngestIndex("i1", d, MaxBatchQueries)
    \/ IngestGetParent("i1")
    \/ IngestPutParent("i1")
    \/ IngestReturn("i1")
    \/ \E g \in StageCalls, request \in StageRequests : GetByStage(g, request)
    \/ \E r \in SearchCalls, request \in SearchRequests : Search(r, request)

SpecQueries == InitStartup /\ [][NextQueries]_vars

\* One /ingest request linking children to a parent, and a /hierarchy
\* request.
NextHierarchy ==
    \/ IngestStart("i1")
    \/ \E d \in LinkInputs : IngestIndex("i1", d, MaxBatchHierarchy)
    \/ IngestGetParent("i1")
    \/ IngestPutParent("i1")
    \/ IngestReturn("i1")
    \/ \E h \in HierarchyCalls, request \in HierarchyRequests :
           HierarchyStart(h, request)
    \/ \E h \in HierarchyCalls : HierarchyParent(h)
    \/ \E h \in HierarchyCalls : HierarchyChild(h)

SpecHierarchy == Init /\ [][NextHierarchy]_vars

\* One /ingest request linking children to a parent, and a /batch_hierarchy
\* request that arrives at some memory usage.
NextBatch ==
    \/ IngestStart("i1")
    \/ \E d \in LinkInputs : IngestIndex("i1", d, MaxBatchRelated)
    \/ IngestGetParent("i1")
    \/ IngestPutParent("i1")
    \/ IngestReturn("i1")
    \/ \E b \in BatchCalls, request \in BatchHierarchyRequests,
           memory_percent \in MemoryPercents :
           BatchStart(b, request, memory_percent)
    \/ \E b \in BatchCalls : BatchSearch(b)
    \/ \E b \in BatchCalls : BatchRelated(b)

SpecBatch == Init /\ [][NextBatch]_vars

\* Two /update_status requests for the parent a while one /ingest request
\* indexes a and links children to it.
NextStatus ==
    \/ IngestStart("i1")
    \/ \E d \in LinkInputs : IngestIndex("i1", d, MaxBatchStatus)
    \/ IngestGetParent("i1")
    \/ IngestPutParent("i1")
    \/ IngestReturn("i1")
    \/ \E u \in ConcurrentUpdateCalls, r \in ParentStatusRequests :
           UpdateStart(u, r)
    \/ \E u \in ConcurrentUpdateCalls : UpdateGet(u)
    \/ \E u \in ConcurrentUpdateCalls : UpdatePut(u)

SpecStatus == Init /\ [][NextStatus]_vars

\* Two concurrent /ingest requests on the documents of one flat tree.
NextRace ==
    \/ \E c \in IngestCalls : IngestStart(c)
    \/ \E c \in IngestCalls, d \in LinkInputs : IngestIndex(c, d, MaxBatchRace)
    \/ \E c \in IngestCalls : IngestGetParent(c)
    \/ \E c \in IngestCalls : IngestPutParent(c)
    \/ \E c \in IngestCalls : IngestReturn(c)

SpecRace == Init /\ [][NextRace]_vars

\* One /ingest request that indexes documents and indexes them again with
\* other fields, while a /update_status request is served.
NextRevised ==
    \/ IngestStart("i1")
    \/ \E d \in RevisedInputs : IngestIndex("i1", d, MaxBatchRevised)
    \/ IngestGetParent("i1")
    \/ IngestPutParent("i1")
    \/ IngestReturn("i1")
    \/ \E u \in UpdateCalls, r \in StatusUpdateRequests : UpdateStart(u, r)
    \/ \E u \in UpdateCalls : UpdateGet(u)
    \/ \E u \in UpdateCalls : UpdatePut(u)

SpecRevised == Init /\ [][NextRevised]_vars

\* The requests sent to a service that started without es_client: a few of
\* each operation's request bodies.
UnavailableStatusRequests ==
    {r \in StatusUpdateRequests :
        r.document_id = "a" /\ r.additional_status = None}

UnavailableStageRequests ==
    {r \in StageRequests :
        r.hierarchy_level = 0 /\ r.stage_type \in {"completed", "ready_embed"}}

UnavailableSearchRequests ==
    {r \in SearchRequests : r.use_hybrid /\ ~r.use_vector}

UnavailableHierarchyRequests ==
    {r \in HierarchyRequests :
        r.document_id = "a" /\ r.include_parents /\ r.include_children}

UnavailableBatchRequests ==
    {r \in BatchHierarchyRequests :
        /\ r.document_ids \in {<<>>, <<"a">>}
        /\ r.include_parents /\ r.include_children /\ r.max_depth = 3}

\* A service that started without es_client: every operation is requested;
\* each request is answered by the first step of its handler.
NextUnavailable ==
    \/ \E c \in IngestCalls : IngestStart(c)
    \/ \E r \in SearchCalls, request \in UnavailableSearchRequests :
           Search(r, request)
    \/ \E h \in HierarchyCalls, request \in UnavailableHierarchyRequests :
           HierarchyStart(h, request)
    \/ \E g \in StageCalls, request \in UnavailableStageRequests :
           GetByStage(g, request)
    \/ \E u \in UpdateCalls, request \in UnavailableStatusRequests :
           UpdateStart(u, request)
    \/ \E b \in BatchCalls, request \in UnavailableBatchRequests,
           memory_percent \in MemoryPercents :
           BatchStart(b, request, memory_percent)
    \/ \E f \in FinalCalls, w \in Workflows : FinalSummary(f, w)
    \/ \E t \in TreeCalls, w \in Workflows : CompleteTree(t, w, 1)
    \/ \E q \in ContextCalls, include_siblings \in BOOLEAN :
           ContextStart(q, "a", include_siblings)

SpecUnavailable == InitUnavailable /\ [][NextUnavailable]_vars

----------------------------------------------------------------------------
\* Properties.

NoDuplicates(s) == \A i, j \in 1..Len(s) : s[i] = s[j] => i = j

Occurrences(s, x) == Cardinality({i \in 1..Len(s) : s[i] = x})

Stored == DOMAIN store

IsFinalOf(id, w) ==
    /\ id \in Stored
    /\ store[id].source.workflow_id = w
    /\ store[id].source.is_final_summary

\* C1: after any sequence of ingest calls the index never holds two distinct
\* documents of the same workflow that are both flagged is_final_summary.
C1_OneFinalSummaryPerWorkflow ==
    \A w \in Workflows : \A x, y \in Stored :
        IsFinalOf(x, w) /\ IsFinalOf(y, w) => x = y

\* C2: when the index already holds a final summary of workflow w written by
\* an earlier request, a request that reaches another final summary of w is
\* answered with HTTP 400 and leaves the index as it was.
C2_LaterFinalSummaryRejected ==
    [][\A c \in IngestCalls : \A w \in Workflows :
          ( /\ ing'[c].finals_seen[w] = ing[c].finals_seen[w] + 1
            /\ ing[c].finals_written[w] = 0
            /\ \E y \in Stored : IsFinalOf(y, w) /\ store'[y] = store[y] )
          => ing'[c].status_code = 400 /\ store' = store]_vars

\* C3: an ingest call whose list holds two final summaries of one workflow is
\* answered with HTTP 400 and has written no document of that workflow.
C3_NothingOfWorkflowPersisted ==
    \A c \in IngestCalls : \A w \in Workflows :
        ing[c].pc = "done" /\ ing[c].finals_seen[w] >= 2
            => ing[c].status_code = 400 /\ w \notin ing[c].written

\* C4: within one ingest call the duplicate check sees every earlier document
\* of the list: as soon as the list has shown two final summaries of one
\* workflow, whatever lies before and between them, the call has ended with
\* HTTP 400 and only the first of the two has been written.
C4_SecondFinalInBatchRejected ==
    \A c \in IngestCalls : \A w \in Workflows :
        /\ ing[c].finals_written[w] <= 1
        /\ ing[c].finals_seen[w] >= 2
              => /\ ing[c].pc = "done"
                 /\ ing[c].status_code = 400
                 /\ ing[c].finals_seen[w] = 2
                 /\ ing[c].doc_input.workflow_id = w
                 /\ ing[c].doc_input.is_final_summary

\* A call of three documents, a final summary of w1, a document of w2 and a
\* second final summary of w1, in this order, has been refused.
C4_Witness ==
    /\ ing["i1"].pc = "done" /\ ing["i1"].status_code = 400
    /\ ing["i1"].document_ids = <<"a", "b">>
    /\ ing["i1"].finals_seen["w1"] = 2
    /\ IsFinalOf("a", "w1")
    /\ "b" \in Stored /\ store["b"].source.workflow_id = "w2"
    /\ ing["i2"].pc = "idle"

\* C5: when an ingest call that ran alone completes, every document it
\* ingested under a parent that was in the index is listed exactly once in
\* that parent's children_ids.
C5_ChildListedOnceAfterIngest ==
    [][\A c \in IngestCalls :
          ( /\ ing[c].pc # "done" /\ ing'[c].pc = "done"
            /\ \A o \in IngestCalls \ {c} : ing[o].pc \in {"idle", "done"}
            /\ \A u \in UpdateCalls : upd[u].pc \in {"idle", "done"} )
          => \A pr \in ing[c].linked :
                Occurrences(store'[pr[2]].source.children_ids, pr[1]) = 1]_vars

\* C6: no children_ids ever lists an id twice, and the ids stand in the order
\* in which their backlink writes succeeded: a step leaves a document's
\* children_ids alone, empties it (the document is indexed anew) or appends
\* one id that was not in it.
C6_ChildrenIdsAppendOnly ==
    [][\A id \in DOMAIN store' :
          LET new == store'[id].source.children_ids
              old == IF id \in Stored THEN store[id].source.children_ids ELSE <<>>
          IN /\ NoDuplicates(new)
             /\ \/ new = old
                \/ new = <<>>
                \/ \E x \in Ids : x \notin Range(old) /\ new = Append(old, x)]_vars

\* Both children are linked after a backlink write was refused and after a
\* status update of the parent went through.
C6_Witness ==
    /\ "a" \in Stored
    /\ Len(store["a"].source.children_ids) = 2
    /\ store["a"].source.processing_status = "completed"
    /\ store["a"].seq_no >= 5

\* C7: an update_status call whose conditional writes all met a version
\* conflict has made at most max_retries attempts and answers HTTP 409.
C7_ConflictAfterRetries ==
    \A u \in UpdateCalls :
        upd[u].pc = "done" /\ upd[u].error = "version_conflict"
            => upd[u].attempt + 1 <= max_retries /\ upd[u].status_code = 409

\* C8: every stored document's processing_status is one of valid_statuses.
C8_StoredStatusValid ==
    \A id \in Stored : store[id].source.processing_status \in valid_statuses

\* The parent chain of id reaches a root through stored documents in at most
\* fuel steps (so it is acyclic).
RECURSIVE ChainToRoot(_, _)
ChainToRoot(id, fuel) ==
    /\ id \in Stored
    /\ \/ store[id].source.parent_id = None
       \/ fuel > 0 /\ ChainToRoot(store[id].source.parent_id, fuel - 1)

\* The number of edges from id up to its root.
RECURSIVE DepthOf(_)
DepthOf(id) ==
    IF store[id].source.parent_id = None THEN 0
    ELSE 1 + DepthOf(store[id].source.parent_id)

\* A context request answered from the index as it stands.
AnsweredFromStore(q) ==
    ctx[q].pc = "done" /\ ctx[q].status_code = 200 /\ ~ctx[q].store_changed

\* C9: for a document at depth k of an acyclic, fully stored parent chain the
\* breadcrumb_path has k+1 entries: the first is the root, the last is the
\* document itself, and each entry is the parent of the next.
C9_BreadcrumbIsRootPath ==
    \A q \in ContextCalls :
        AnsweredFromStore(q) /\ ChainToRoot(ctx[q].document_id, Cardinality(Ids))
        => LET path == ctx[q].breadcrumb_path
               n == Len(path)
           IN /\ n = DepthOf(ctx[q].document_id) + 1
              /\ path[n] = ctx[q].document_id
              /\ store[path[1]].source.parent_id = None
              /\ \A i \in 1..(n - 1) : store[path[i + 1]].source.parent_id = path[i]

\* A document two edges below its root has been answered.
C9_Witness ==
    \E q \in ContextCalls :
        /\ AnsweredFromStore(q)
        /\ ChainToRoot(ctx[q].document_id, Cardinality(Ids))
        /\ DepthOf(ctx[q].document_id) = 2

\* C10: whatever the parent pointers are, the breadcrumb walk never records
\* an id twice and, while it goes on, is about to fetch an id it has not
\* recorded, so it makes at most one step per id; the request is answered
\* with HTTP 200 once the document itself was found (HTTP 404, before any
\* step, otherwise), and the path ends at the document asked for.
C10_BreadcrumbWalkBounded ==
    \A q \in ContextCalls :
        LET path == ctx[q].breadcrumb_path IN
        /\ NoDuplicates(path)
        /\ ctx[q].pc = "walk" =>
              path # <<>> /\ ctx[q].current_id \in Ids \ Range(path)
        /\ ctx[q].pc = "done" =>
              \/ ctx[q].status_code = 404 /\ path = <<>>
              \/ /\ ctx[q].status_code = 200
                 /\ path # <<>>
                 /\ path[Len(path)] = ctx[q].document_id

\* A document on a parent cycle of two documents has been answered.
C10_Witness ==
    \E q \in ContextCalls :
        LET id == ctx[q].document_id IN
        /\ AnsweredFromStore(q)
        /\ store[id].source.parent_id \in Stored \ {id}
        /\ store[store[id].source.parent_id].source.parent_id = id
        /\ ctx[q].breadcrumb_path = <<store[id].source.parent_id, id>>

\* A context request with include_siblings answered from the index as it
\* stands, for a document that its stored parent lists among its children.
SiblingsAnswered(q) ==
    /\ AnsweredFromStore(q)
    /\ ctx[q].include_siblings
    /\ ctx[q].parent_id \in Stored
    /\ ctx[q].document_id \in Range(store[ctx[q].parent_id].source.children_ids)
    /\ Range(store[ctx[q].parent_id].source.children_ids) \subseteq Stored

\* C11: for a document whose parent lists n children, all stored, the
\* response has exactly n-1 sibling entries and none of them is the document
\* asked for.
C11_SiblingsExcludeSelf ==
    \A q \in ContextCalls :
        SiblingsAnswered(q)
        => /\ Len(ctx[q].siblings) =
                 Len(store[ctx[q].parent_id].source.children_ids) - 1
           /\ \A k \in 1..Len(ctx[q].siblings) :
                 ctx[q].siblings[k].document_id # ctx[q].document_id

\* C12: every sibling entry carries as position the 0-based index of its id
\* in the children_ids read from the parent (the stored list when the index
\* did not change meanwhile), entries come in increasing position, and
\* sibling_position is the index of the document asked for in that list.
C12_SiblingPositions ==
    \A q \in ContextCalls :
        ctx[q].pc = "done" /\ ctx[q].total_siblings # NotComputed
        => LET sibs == ctx[q].siblings
               ids == ctx[q].sibling_ids
           IN /\ ~ctx[q].store_changed
                    => ids = store[ctx[q].parent_id].source.children_ids
              /\ ctx[q].total_siblings = Len(sibs)
              /\ \A k \in 1..Len(sibs) :
                    /\ sibs[k].position \in 0..(Len(ids) - 1)
                    /\ ids[sibs[k].position + 1] = sibs[k].document_id
              /\ \A k \in 1..(Len(sibs) - 1) :
                    sibs[k].position < sibs[k + 1].position
              /\ \A i \in 1..Len(ids) :
                    ids[i] = ctx[q].document_id
                        => ctx[q].sibling_position = i - 1
              /\ ctx[q].document_id \notin Range(ids)
                    => ctx[q].sibling_position = NotComputed

\* The middle one of three children has been answered.
C12_Witness ==
    \E q \in ContextCalls :
        /\ SiblingsAnswered(q)
        /\ Len(ctx[q].sibling_ids) = 3
        /\ ctx[q].sibling_position = 1
        /\ Len(ctx[q].siblings) = 3

\* The number of edges from id up to a root among the hits, -1 when the
\* parent chain leaves the hits or runs into a cycle.
RECURSIVE RootDistance(_, _, _)
RootDistance(hits, id, fuel) ==
    LET at == {i \in 1..Len(hits) : hits[i].document_id = id} IN
    IF at = {} \/ fuel < 0 THEN -1
    ELSE LET parent == hits[CHOOSE i \in at : TRUE].parent_id IN
         IF parent = None THEN 0
         ELSE LET up == RootDistance(hits, parent, fuel - 1)
              IN IF up < 0 THEN -1 ELSE up + 1

HitIds(hits) == {hits[i].document_id : i \in 1..Len(hits)}

\* The hits that hang, directly or not, under a root.
Reachable(hits) ==
    {id \in HitIds(hits) : RootDistance(hits, id, Len(hits)) >= 0}

\* The depth of the deepest document of the workflow's forest.
TrueDepth(hits) ==
    LET ds == {RootDistance(hits, id, Len(hits)) : id \in Reachable(hits)} \cup {0}
    IN CHOOSE d \in ds : \A e \in ds : e <= d

\* Some document's parent chain leads back to itself.
HasCycle(hits) ==
    \E id \in HitIds(hits) :
        LET RECURSIVE Up(_, _)
            Up(x, fuel) ==
                LET at == {i \in 1..Len(hits) : hits[i].document_id = x} IN
                IF at = {} \/ fuel = 0 THEN FALSE
                ELSE LET parent == hits[CHOOSE i \in at : TRUE].parent_id
                     IN parent = id \/ Up(parent, fuel - 1)
        IN Up(id, Len(hits))

\* C13: /get_complete_tree on a workflow whose parent_id pointers contain a
\* cycle is answered (the forest is built in one step) with HTTP 200, and no
\* document appears twice among the nodes returned.
C13_CycleTreeAnswered ==
    \A t \in TreeCalls :
        tree[t].pc = "done" /\ HasCycle(tree[t].hits)
        => /\ tree[t].status_code = 200
           /\ \A i, j \in 1..Len(tree[t].nodes) :
                 tree[t].nodes[i].document_id = tree[t].nodes[j].document_id
                     => i = j

\* A workflow of a root and two documents that are each other's parent has
\* been answered with the root alone.
C13_Witness ==
    \E t \in TreeCalls :
        /\ tree[t].pc = "done"
        /\ HasCycle(tree[t].hits)
        /\ Len(tree[t].hits) = 3
        /\ Len(tree[t].nodes) = 1

\* C14: for every max_depth d >= 1 each node returned lies at its distance
\* from its root and at most d edges below it; when d is at least the true
\* depth of the workflow's forest, truncated is false and every document
\* that hangs under a root is returned.
C14_DepthLimit ==
    \A t \in TreeCalls :
        tree[t].pc = "done" /\ tree[t].status_code = 200
        => /\ \A i \in 1..Len(tree[t].nodes) :
                 /\ tree[t].nodes[i].depth <= tree[t].max_depth
                 /\ tree[t].nodes[i].depth =
                        RootDistance(tree[t].hits, tree[t].nodes[i].document_id,
                                     Len(tree[t].hits))
           /\ tree[t].max_depth >= TrueDepth(tree[t].hits)
                 => /\ ~tree[t].truncated
                    /\ built_ids(tree[t].nodes) = Reachable(tree[t].hits)

\* A chain of three documents has been returned in full under max_depth 2.
C14_Witness ==
    \E t \in TreeCalls :
        /\ tree[t].pc = "done"
        /\ TrueDepth(tree[t].hits) = 2
        /\ tree[t].max_depth = 2
        /\ Len(tree[t].nodes) = 3

\* C15: truncated is true exactly when the true depth of the workflow's
\* forest exceeds max_depth.
C15_TruncatedIffDeeper ==
    \A t \in TreeCalls :
        tree[t].pc = "done" /\ tree[t].status_code = 200
        => (tree[t].truncated <=> TrueDepth(tree[t].hits) > tree[t].max_depth)

\* The stored documents of workflow w flagged as final summary.
FinalsOf(w) == {id \in Stored : IsFinalOf(id, w)}

\* C16: /get_final_summary of workflow w is decided by the number of stored
\* documents of w flagged as final summary: none is HTTP 404, two or more
\* are HTTP 409, exactly one is HTTP 200 with that document.
C16_FinalSummaryByCount ==
    [][\A f \in FinalCalls :
          fin[f].pc = "idle" /\ fin'[f].pc = "done"
          => LET n == Cardinality(FinalsOf(fin'[f].workflow_id)) IN
             /\ n = 0 => fin'[f].status_code = 404
             /\ n >= 2 => fin'[f].status_code = 409
             /\ n = 1 => /\ fin'[f].status_code = 200
                         /\ fin'[f].document_id \in FinalsOf(fin'[f].workflow_id)]_vars

\* C17: once one ingest call has stored a workflow with exactly one final
\* summary and its two children, /get_final_summary answers HTTP 200 with
\* that document, is_root and has_children true, and two children_ids.
C17_FinalSummaryAfterIngest ==
    [][\A f \in FinalCalls :
          ( /\ fin[f].pc = "idle" /\ fin'[f].pc = "done"
            /\ ing["i1"].pc = "done" /\ ing["i1"].status_code = 200
            /\ ing["i2"].pc = "idle"
            /\ FinalsOf(fin'[f].workflow_id) = {"a"}
            /\ store["a"].source.parent_id = None
            /\ Len(store["a"].source.children_ids) = 2 )
          => /\ fin'[f].status_code = 200
             /\ fin'[f].document_id = "a"
             /\ fin'[f].is_root
             /\ fin'[f].has_children
             /\ Len(fin'[f].children_ids) = 2]_vars

\* C18: when embedding generation fails for a document of an ingest batch,
\* the document is still indexed and listed among the ids processed, and the
\* request goes on without a request-level error (it is still running or
\* was answered with HTTP 200).
C18_EmbeddingFailureNotFatal ==
    \A c \in IngestCalls :
        ing[c].embed_failed # NoInput
        => /\ ing[c].embed_failed.document_id \in Stored
           /\ ing[c].embed_failed.document_id \in Range(ing[c].document_ids)
           /\ ing[c].pc # "done" \/ ing[c].status_code = 200

\* C19: /get_by_stage with a stage_type outside stage_mapping is answered
\* with HTTP 400 and no search is made.
C19_UnknownStageRejected ==
    \A g \in StageCalls :
        stage[g].pc = "done" /\ stage[g].stage_type \notin DOMAIN stage_mapping
        => stage[g].status_code = 400 /\ ~stage[g].queried

\* C20: without an embedding model /search answers HTTP 503 exactly when the
\* branch the request takes is vector or hybrid; a bm25 request (use_bm25
\* set, use_vector not) is not refused, whatever use_hybrid is.
C20_EmbeddingNeededOnlyForVector ==
    \A r \in SearchCalls :
        srch[r].pc = "done" /\ embedding_model = None
        => (srch[r].status_code = 503
                <=> ~(srch[r].use_bm25 /\ ~srch[r].use_vector))
\* C21: /batch_hierarchy refuses a request with an empty id list, with more
\* than 50 ids, or made while memory usage is above 85 percent, before any
\* search of the index: once the request has been taken up it is answered
\* with an error and no search was made.
C21_BatchRejectedBeforeQuery ==
    \A b \in BatchCalls :
        /\ bat[b].pc # "idle"
        /\ \/ Len(bat[b].document_ids) = 0
           \/ Len(bat[b].document_ids) > max_batch_documents
           \/ bat[b].memory_percent > memory_limit_percent
        => /\ bat[b].pc = "done"
           /\ bat[b].status_code \in {400, 503}
           /\ bat[b].queries = 0

\* C22: /update_status for a document that is not in the index is answered
\* with the not-found status (HTTP 404), which is none of the statuses of a
\* validation error (400), a conflict (409) or a server error (500).
C22_MissingDocumentNotFound ==
    \A u \in UpdateCalls :
        upd[u].pc = "done" /\ upd[u].error = "not_found"
        => upd[u].status_code = 404

\* C23: in a service whose es_client is not set every operation answers
\* HTTP 503: /ingest, /search, /hierarchy, /get_by_stage, /update_status,
\* /batch_hierarchy, /get_final_summary, /get_complete_tree and
\* /get_document_with_context.
C23_UnavailableAnswers503 ==
    es_client = None
    => /\ \A c \in IngestCalls : ing[c].pc = "done" => ing[c].status_code = 503
       /\ \A r \in SearchCalls : srch[r].pc = "done" => srch[r].status_code = 503
       /\ \A h \in HierarchyCalls : hier[h].pc = "done" => hier[h].status_code = 503
       /\ \A g \in StageCalls : stage[g].pc = "done" => stage[g].status_code = 503
       /\ \A u \in UpdateCalls : upd[u].pc = "done" => upd[u].status_code = 503
       /\ \A b \in BatchCalls : bat[b].pc = "done" => bat[b].status_code = 503
       /\ \A f \in FinalCalls : fin[f].pc = "done" => fin[f].status_code = 503
       /\ \A t \in TreeCalls : tree[t].pc = "done" => tree[t].status_code = 503
       /\ \A q \in ContextCalls : ctx[q].pc = "done" => ctx[q].status_code = 503

\* C24: when the conditional write of the parent in /ingest comes after the
\* parent was written by someone else since it was read, the step leaves the
\* index as it is, the child stays indexed with its parent_id and is among
\* the ids the request returns, and the request goes on with its list
\* without reading or writing the parent again for this child; it is
\* answered with HTTP 200.
C24_BacklinkConflictTolerated ==
    [][\A c \in IngestCalls :
          LET p == ing[c].doc_input.parent_id
              child == ing[c].doc_input.document_id
          IN /\ ( /\ ing[c].pc = "put_parent"
                  /\ ing'[c] # ing[c]
                  /\ store[p].seq_no # ing[c].parent_result.seq_no )
                => /\ store' = store
                   /\ ing'[c].pc = "loop"
                   /\ ing'[c].doc_input = NoInput
                   /\ child \in Range(ing'[c].document_ids)
                   /\ child \in Stored
                   /\ store[child].source.parent_id = p
             /\ ( ing'[c].pc = "done" /\ ing[c].refused # {} )
                => ing'[c].status_code = 200]_vars

\* A request whose backlink write for b has just been refused goes on with
\* its list; b is indexed under a, among the ids to return, and a does not
\* list it.
C24_Witness ==
    \E c \in IngestCalls :
        /\ ing[c].pc = "loop"
        /\ <<"b", "a">> \in ing[c].refused
        /\ "b" \in Range(ing[c].document_ids)
        /\ store["b"].source.parent_id = "a"
        /\ "b" \notin Range(store["a"].source.children_ids)

\* C25: every conditional write, of /update_status and of the backlink in
\* /ingest, that changes the index is applied on the version its caller
\* read; a successful /update_status returns as previous_status the status
\* its write replaced and keeps the children_ids the index held (no backlink
\* is lost to it), and a backlink write keeps the processing_status the
\* index held (no status update is lost to it).
C25_WritesOnVersionRead ==
    [][/\ \A u \in ConcurrentUpdateCalls :
            LET id == upd[u].request.document_id IN
            upd[u].pc = "put" /\ upd'[u].pc = "done" /\ upd'[u].status_code = 200
            => /\ store[id].seq_no = upd[u].doc_result.seq_no
               /\ upd'[u].previous_status = store[id].source.processing_status
               /\ store'[id].source.processing_status = status_update(upd[u].request)
               /\ store'[id].source.children_ids = store[id].source.children_ids
       /\ \A c \in IngestCalls :
            LET p == ing[c].doc_input.parent_id IN
            ing[c].pc = "put_parent" /\ ing'[c] # ing[c] /\ store' # store
            => /\ store[p].seq_no = ing[c].parent_result.seq_no
               /\ store'[p].source.processing_status
                      = store[p].source.processing_status
               /\ store'[p].source.children_ids
                      = Append(store[p].source.children_ids,
                               ing[c].doc_input.document_id)]_vars

\* Both /update_status requests succeeded, the second after a version
\* conflict, on a parent that got a child linked meanwhile: the parent has
\* the child, and the request that wrote last reports the other's status as
\* previous_status.
C25_Witness ==
    /\ \A u \in ConcurrentUpdateCalls : upd[u].pc = "done" /\ upd[u].status_code = 200
    /\ upd["u1"].request.processing_status = "processing"
    /\ upd["u2"].request.processing_status = "completed"
    /\ upd["u2"].previous_status = "processing"
    /\ upd["u2"].attempt > 0
    /\ store["a"].source.processing_status = "completed"
    /\ store["a"].source.children_ids = <<"b">>

\* Request c makes the later of two backlink writes that were both prepared
\* from the same version of the parent: since c read the parent, exactly one
\* write was applied to it, and it appended the other child y to the list
\* that c read.
LaterBacklinkWrite(c, y) ==
    LET p == ing[c].doc_input.parent_id
        x == ing[c].doc_input.document_id
        mine == ing[c].parent_result.source.children_ids
    IN /\ ing[c].pc = "put_parent"
       /\ ing'[c] # ing[c]
       /\ y # x
       /\ store[p].seq_no = ing[c].parent_result.seq_no + 1
       /\ store[p].source.children_ids
              = Append(SubSeq(mine, 1, Len(mine) - 1), y)

\* C26 as stated: when two /ingest requests add two children of the same
\* parent and both read the parent before either writes it back, the later
\* of the two writes determines the stored children_ids.
C26_LastWriteWins ==
    [][\A c \in IngestCalls, y \in Ids :
          LaterBacklinkWrite(c, y)
          => store'[ing[c].doc_input.parent_id].source.children_ids
                = ing[c].parent_result.source.children_ids]_vars

\* C26 amended: in that case the earlier write determines the stored
\* children_ids: the later write is refused and leaves the index as it is,
\* so the list has the earlier writer's child and lacks the later writer's.
C26_FirstWriteWins ==
    [][\A c \in IngestCalls, y \in Ids :
          LaterBacklinkWrite(c, y)
          => LET p == ing[c].doc_input.parent_id
                 kids == store'[p].source.children_ids
             IN /\ store' = store
                /\ y \in Range(kids)
                /\ ing[c].doc_input.document_id \notin Range(kids)]_vars

\* The backlink write for c has just been refused on a parent a that was
\* written once since it was indexed, by the backlink write for b: b and c
\* are both indexed under a and a lists b alone.
C26_Witness ==
    \E c \in IngestCalls :
        /\ ing[c].pc = "loop"
        /\ <<"c", "a">> \in ing[c].refused
        /\ store["a"].seq_no = 2
        /\ store["a"].source.children_ids = <<"b">>
        /\ store["b"].source.parent_id = "a"
        /\ store["c"].source.parent_id = "a"

\* C27: the forest /get_complete_tree returns is the one the parent_id
\* pointers of the hits describe, whatever their stored children_ids: the
\* nodes returned are the documents at most max_depth edges below a root,
\* each at its distance from the root, and has_children says whether some
\* document names the node as its parent_id.
C27_ForestFromParentIds ==
    \A t \in TreeCalls :
        tree[t].pc = "done" /\ tree[t].status_code = 200
        => LET hits == tree[t].hits
               nodes == tree[t].nodes
           IN /\ built_ids(nodes)
                    = {id \in HitIds(hits) :
                          RootDistance(hits, id, Len(hits)) \in 0..tree[t].max_depth}
              /\ \A i \in 1..Len(nodes) :
                    /\ nodes[i].depth
                          = RootDistance(hits, nodes[i].document_id, Len(hits))
                    /\ nodes[i].has_children
                          = (\E j \in 1..Len(hits) :
                                hits[j].parent_id = nodes[i].document_id)

\* The child b, indexed before its parent a so that a's children_ids is
\* empty, has been returned under a.
C27_Witness ==
    \E t \in TreeCalls :
        /\ tree[t].pc = "done" /\ tree[t].status_code = 200
        /\ \E j \in 1..Len(tree[t].hits) :
              /\ tree[t].hits[j].document_id = "a"
              /\ tree[t].hits[j].parent_id = None
              /\ tree[t].hits[j].children_ids = <<>>
        /\ \E i \in 1..Len(tree[t].nodes) :
              /\ tree[t].nodes[i].document_id = "b"
              /\ tree[t].nodes[i].depth = 1
        /\ \E i \in 1..Len(tree[t].nodes) :
              /\ tree[t].nodes[i].document_id = "a"
              /\ tree[t].nodes[i].has_children

\* C28: when max_depth is at least the depth of the workflow's deepest
\* document, /get_complete_tree returns every document of the workflow
\* exactly once, nodes_returned = total_nodes, also when a document's
\* parent_id names no document of the workflow or lies on a cycle.
C28_AllNodesReturned ==
    \A t \in TreeCalls :
        /\ tree[t].pc = "done" /\ tree[t].status_code = 200
        /\ tree[t].max_depth >= TrueDepth(tree[t].hits)
        => /\ tree[t].nodes_returned = tree[t].total_nodes
           /\ built_ids(tree[t].nodes) = HitIds(tree[t].hits)
           /\ Len(tree[t].nodes) = Cardinality(HitIds(tree[t].hits))

\* C29: in every state of the index that /ingest requests lead to, every id
\* in a document's children_ids is the id of an indexed document whose
\* parent_id is that document.
C29_ChildrenNameTheirParent ==
    \A p \in Stored :
        \A x \in Range(store[p].source.children_ids) :
            x \in Stored /\ store[x].source.parent_id = p

\* C30: a step of /update_status that ends the request with HTTP 200 changes
\* the index in the document's metadata alone: the document's content,
\* parent_id, children_ids and workflow fields are those the index held
\* before the step, and every other document is as it was; every other step
\* of /update_status leaves the index as it is.
C30_UpdateChangesMetadataOnly ==
    [][\A u \in UpdateCalls :
          LET id == upd[u].request.document_id IN
          upd'[u] # upd[u]
          => IF upd[u].pc = "put" /\ upd'[u].status_code = 200
             THEN /\ DOMAIN store' = DOMAIN store
                  /\ \A x \in DOMAIN store : x # id => store'[x] = store[x]
                  /\ store'[id].source.content = store[id].source.content
                  /\ store'[id].source.parent_id = store[id].source.parent_id
                  /\ store'[id].source.children_ids = store[id].source.children_ids
                  /\ store'[id].source.workflow_id = store[id].source.workflow_id
                  /\ store'[id].source.is_final_summary
                         = store[id].source.is_final_summary
             ELSE store' = store]_vars

\* A status update of a succeeded on its second attempt, after a got b
\* linked: a has the content it was indexed with, its child and the new
\* status.
C30_Witness ==
    \E u \in UpdateCalls :
        /\ upd[u].pc = "done" /\ upd[u].status_code = 200
        /\ upd[u].request.document_id = "a"
        /\ upd[u].attempt > 0
        /\ store["a"].source.content = "revised"
        /\ store["a"].source.children_ids = <<"b">>
        /\ store["a"].source.processing_status = "completed"
        /\ store["a"].seq_no = 3

====
